---- MODULE Spec2Model ----
(***************************************************************************)
(* star_record: replay ingestion and record resolution.                    *)
(*                                                                         *)
(* The model follows src/db.py (the SQLite record store), src/             *)
(* record_manager.py (RecordManager: process_replay, detect_my_name) and   *)
(* src/watcher.py (ReplayHandler).  Every Database method opens its own    *)
(* connection and commits on exit (Database._connect), so every method     *)
(* call is one unit of work and one step of the model; process_replay is a *)
(* sequence of such units and is therefore a sequence of steps.            *)
(***************************************************************************)
EXTENDS Integers, Sequences, FiniteSets, TLC

\* Python's None / SQL NULL for a name.
None == "None"

\* SQL NULL for played_at, and "no DATE_PATTERN match" for file names.
Null == <<>>

\* In-replay player names.
Names == {"A", "B", "C"}

\* Callers of process_replay that may run at the same time (the watcher's
\* worker thread, a CLI import in another process).
Threads == {"t1", "t2"}

\* Replay file names (Path.name): an optional YYYY-MM-DD@HHMMSS token, as the
\* date text and the six digits of the time, and the rest of the name.
F1 == [token |-> <<"2026-02-07", <<0, 2, 0, 6, 2, 4>> >>, rest |-> "a.rep"]
F2 == [token |-> <<"2026-02-08", <<2, 1, 1, 5, 0, 0>> >>, rest |-> "b.rep"]
F3 == [token |-> Null, rest |-> "c.rep"]
F4 == [token |-> Null, rest |-> "d.rep"]
Files == {F1, F2, F3, F4}

VARIABLES
    players,        \* table players: rows [id, name, is_me]
    aliases,        \* table aliases: rows [player_id, alt_name]
    games,          \* table games
    game_players,   \* table game_players
    chat_messages,  \* table chat_messages
    my_names,       \* RecordManager._my_names, the in-memory overlay
    pc,             \* per caller: position inside process_replay
    replay_file,    \* per caller: process_replay's replay_file
    parser,         \* per caller: the decoder's summary
    game_data,      \* per caller: the dict built by _build_game_data
    game_id,        \* per caller: the id insert_game returned
    idx,            \* per caller: loop position in _save_players / _save_chat
    decoded,        \* per caller: whether this call invoked the decoder
    result,         \* per caller: what process_replay returned or raised
    last,           \* the last CLI command run: its name, arguments and result
    returned_id,    \* history: the first id get_or_create_player returned per name
    processed,      \* ReplayHandler._processed
    wpc,            \* the observer thread: position inside ReplayHandler._handle
    wpath,          \* the observer thread: the path being handled
    fs,             \* the watched directory tree: each path absent, empty or full
    event_queue,    \* the observer's queue of file-system events
    hist,           \* history per file name: callback calls, failures, skips
    n_events,       \* history: the number of events queued so far
    observer,       \* the Observer thread's life cycle
    batch,          \* import_folder: its file list, loop position and count
    lpc,            \* launcher: position inside daemon_mode or launch_mode
    sc_proc,        \* whether a StarCraft process is in the task list
    sc_running,     \* daemon_mode's sc_running: what the last poll returned
    sc_was_running, \* daemon_mode's sc_was_running
    watcher,        \* the launcher's watcher variable: 0 for None, or its id
    watchers,       \* the ReplayWatcher objects made so far: observer life cycle
    interrupts      \* history: the number of KeyboardInterrupts delivered

storeVars == <<players, aliases, games, game_players, chat_messages>>
ingestVars == <<pc, replay_file, parser, game_data, game_id, idx, decoded, result>>
watcherVars == <<processed, wpc, wpath, fs, event_queue, hist, n_events, observer>>
launcherVars == <<lpc, sc_proc, sc_running, sc_was_running, watcher, watchers,
                  interrupts>>
envVars == <<last, watcherVars, batch, launcherVars>>
vars == <<players, aliases, games, game_players, chat_messages, my_names,
          pc, replay_file, parser, game_data, game_id, idx, decoded, result,
          last, returned_id, watcherVars, batch, launcherVars>>

----------------------------------------------------------------------------
(* The decoder (sc_replay_parser, an external dependency): its summaries.  *)

NoSummary == [players |-> <<>>, winner |-> None, loser |-> None, chat |-> <<>>,
              map_name |-> None, duration |-> None, actual_duration |-> None]
NoGameData == [replay_file |-> F3, played_at |-> Null, winner_name |-> None,
               loser_name |-> None, my_result |-> "unknown",
               map_name |-> None, duration_text |-> None]

\* The summaries of a 1v1 match between two of the names N: both results
\* determined, only the winner determined, or neither; with chat lines drawn
\* from C, spoken by a participant or by an observer of the match.
Summaries(N, C) ==
    { [players |-> <<a, b>>, winner |-> wl[1], loser |-> wl[2], chat |-> c,
       map_name |-> "Lost Temple", duration |-> "10:00",
       actual_duration |-> "09:58"] :
        a \in N, b \in N, wl \in (N \cup {None}) \X (N \cup {None}), c \in C }

WellFormed(s) ==
    /\ s.players[1] # s.players[2]
    /\ \/ s.winner = s.players[1] /\ s.loser = s.players[2]
       \/ s.winner = s.players[1] /\ s.loser = None
       \/ s.winner = None /\ s.loser = None
    /\ \A i \in 1..Len(s.chat) : s.chat[i] # None

----------------------------------------------------------------------------
(* Database: reads.                                                        *)

\* SELECT name FROM players WHERE is_me = 1
get_my_names == { p.name : p \in { q \in players : q.is_me } }

\* SELECT 1 FROM games WHERE replay_file = ?
game_exists_never(f) == FALSE
game_exists(f) == \E g \in games : g.replay_file = f

\* aliases JOIN players WHERE alt_name = ?  -> the player's name, else name
resolve_player_name(name) ==
    IF \E a \in aliases : a.alt_name = name /\ \E p \in players : p.id = a.player_id
    THEN (CHOOSE p \in players : \E a \in aliases : a.alt_name = name /\ p.id = a.player_id).name
    ELSE name

\* get_or_create_player, steps 1) and 2): the id found by exact name, else by
\* alias, else 0.  WHERE name = NULL matches no row.
find_player(ps, al, name) ==
    IF \E p \in ps : p.name = name
    THEN (CHOOSE p \in ps : p.name = name).id
    ELSE IF \E a \in al : a.alt_name = name
         THEN (CHOOSE a \in al : a.alt_name = name).player_id
         ELSE 0

\* AUTOINCREMENT: no row is ever deleted and a rolled-back insert leaves the
\* sequence as it was, so the next id is the row count plus one.
next_id(table) == Cardinality(table) + 1

\* RecordManager.my_names: the overlay merged with the store's names.
all_my_names == my_names \cup get_my_names

\* RecordManager._determine_my_result
determine_my_result_loser_first(winner_name, loser_name) ==
    IF all_my_names = {} THEN "unknown"
    ELSE IF loser_name \in all_my_names THEN "loss"
    ELSE IF winner_name \in all_my_names THEN "win"
    ELSE "unknown"
determine_my_result(winner_name, loser_name) ==
    IF all_my_names = {} THEN "unknown"
    ELSE IF winner_name \in all_my_names THEN "win"
    ELSE IF loser_name \in all_my_names THEN "loss"
    ELSE "unknown"

\* RecordManager._extract_datetime: 'YYYY-MM-DD@HHMMSS' -> 'YYYY-MM-DD HH:MM:SS',
\* None without a token.
extract_datetime(f) ==
    IF f.token = Null THEN Null
    ELSE LET d == f.token[1]
             t == f.token[2]
         IN <<d, <<t[1], t[2]>>, <<t[3], t[4]>>, <<t[5], t[6]>> >>

\* RecordManager._build_game_data
build_game_data(s, f) ==
    [replay_file |-> f,
     played_at   |-> extract_datetime(f),
     winner_name |-> s.winner,
     loser_name  |-> s.loser,
     my_result   |-> determine_my_result(s.winner, s.loser),
     map_name    |-> s.map_name,
     duration_text |-> IF s.duration # None THEN s.duration
                       ELSE s.actual_duration]

----------------------------------------------------------------------------
(* RecordManager.process_replay, one step per unit of work.                *)

InCall(t) == pc[t] \notin {"idle", "returned", "raised"}

\* Where process_replay goes after _save_players handled participant i (i = 0:
\* after insert_game), and after _save_chat handled line j.
after_player(s, i) ==
    IF i < Len(s.players) THEN "save_players"
    ELSE IF Len(s.chat) > 0 THEN "save_chat" ELSE "returned"
after_chat(s, j) == IF j < Len(s.chat) THEN "save_chat" ELSE "returned"

\* process_replay is entered: replay_file = path.name, then the game_exists
\* pre-check; an already stored file returns None at once.
pre_check(t, f) ==
    /\ ~InCall(t)
    /\ replay_file' = [replay_file EXCEPT ![t] = f]
    /\ parser' = [parser EXCEPT ![t] = NoSummary]
    /\ game_data' = [game_data EXCEPT ![t] = NoGameData]
    /\ game_id' = [game_id EXCEPT ![t] = 0]
    /\ idx' = [idx EXCEPT ![t] = 0]
    /\ decoded' = [decoded EXCEPT ![t] = FALSE]
    /\ IF game_exists(f)
       THEN /\ pc' = [pc EXCEPT ![t] = "returned"]
            /\ result' = [result EXCEPT ![t] = "None"]
       ELSE /\ pc' = [pc EXCEPT ![t] = "parse"]
            /\ result' = [result EXCEPT ![t] = "pending"]
    /\ UNCHANGED <<storeVars, my_names, last, watcherVars, returned_id>>

\* process_replay called on its own (the watcher's callback).
Call(t, f) ==
    /\ pre_check(t, f)
    /\ UNCHANGED <<batch, launcherVars>>

\* except Exception around the decoder: logged, None returned.
on_parse_error_propagated(t) ==
    /\ pc' = [pc EXCEPT ![t] = "raised"]
    /\ result' = [result EXCEPT ![t] = "ParseError"]
on_parse_error(t) ==
    /\ pc' = [pc EXCEPT ![t] = "returned"]
    /\ result' = [result EXCEPT ![t] = "None"]

\* The decoder raises.
ParseFail(t) ==
    /\ pc[t] = "parse"
    /\ on_parse_error(t)
    /\ decoded' = [decoded EXCEPT ![t] = TRUE]
    /\ UNCHANGED <<storeVars, my_names, envVars, returned_id, replay_file, parser, game_data, game_id, idx>>

\* The decoder yields summary s; _build_game_data builds the dict (reading the
\* local-user names once).
ParseOk(t, s) ==
    /\ pc[t] = "parse"
    /\ WellFormed(s)
    /\ parser' = [parser EXCEPT ![t] = s]
    /\ game_data' = [game_data EXCEPT ![t] = build_game_data(s, replay_file[t])]
    /\ pc' = [pc EXCEPT ![t] = "insert_game"]
    /\ decoded' = [decoded EXCEPT ![t] = TRUE]
    /\ UNCHANGED <<storeVars, my_names, envVars, returned_id, replay_file, game_id, idx, result>>

\* Database.insert_game: replay_file is UNIQUE; a second row for the same file
\* is an IntegrityError, the unit is rolled back and the error propagates out
\* of process_replay.
insert_game_unchecked(t) ==
    /\ games' = games \cup {[id |-> next_id(games)] @@ game_data[t]}
    /\ game_id' = [game_id EXCEPT ![t] = next_id(games)]
    /\ idx' = [idx EXCEPT ![t] = 1]
    /\ pc' = [pc EXCEPT ![t] = after_player(parser[t], 0)]
    /\ IF after_player(parser[t], 0) = "returned"
       THEN result' = [result EXCEPT ![t] = "game_data"]
       ELSE UNCHANGED result
insert_game(t) ==
    IF \E g \in games : g.replay_file = game_data[t].replay_file
    THEN /\ pc' = [pc EXCEPT ![t] = "raised"]
         /\ result' = [result EXCEPT ![t] = "IntegrityError"]
         /\ UNCHANGED <<games, game_id, idx>>
    ELSE insert_game_unchecked(t)

InsertGame(t) ==
    /\ pc[t] = "insert_game"
    /\ insert_game(t)
    /\ UNCHANGED <<players, aliases, game_players, chat_messages, my_names, envVars, returned_id,
                   replay_file, parser, game_data, decoded>>

\* Leaving a loop body of _save_players / _save_chat for position nxt.
Advance(t, nxt) ==
    /\ pc' = [pc EXCEPT ![t] = nxt]
    /\ idx' = [idx EXCEPT ![t] = IF nxt = pc[t] THEN idx[t] + 1 ELSE 1]
    /\ IF nxt = "returned"
       THEN result' = [result EXCEPT ![t] = "game_data"]
       ELSE UNCHANGED result

Raise(t, e) ==
    /\ pc' = [pc EXCEPT ![t] = "raised"]
    /\ result' = [result EXCEPT ![t] = e]
    /\ UNCHANGED idx

\* History: get_or_create_player(name) returned id.
NoteReturned(name, id) ==
    returned_id' = IF returned_id[name] = 0
                   THEN [returned_id EXCEPT ![name] = id]
                   ELSE returned_id

\* Step 3) of get_or_create_player: INSERT INTO players (name).
new_player(name) == [id |-> next_id(players), name |-> name, is_me |-> FALSE]

\* Database.insert_game_player
game_player_row(t, player_id) ==
    [id |-> next_id(game_players), game_id |-> game_id[t], player_id |-> player_id,
     is_winner |-> (parser[t].players[idx[t]] = parser[t].winner)]

\* Database.insert_chat_message
chat_row(t, player_id) ==
    [id |-> next_id(chat_messages), game_id |-> game_id[t], player_id |-> player_id]

\* One pass of the loop in _save_players whose get_or_create_player finds the
\* player (by name or alias): insert_game_player with the id found.  When no
\* row is found the SELECTs of get_or_create_player have run and its INSERT is
\* the next step (the SELECTs take no write lock, so another connection may
\* write in between).
SavePlayerFound(t) ==
    /\ pc[t] = "save_players"
    /\ LET name == parser[t].players[idx[t]]
           pid == find_player(players, aliases, name)
       IN /\ pid # 0
          /\ game_players' = game_players \cup {game_player_row(t, pid)}
          /\ NoteReturned(name, pid)
          /\ Advance(t, after_player(parser[t], idx[t]))
    /\ UNCHANGED <<players, aliases, games, chat_messages, my_names, envVars,
                   replay_file, parser, game_data, game_id, decoded>>

SavePlayerMissing(t) ==
    /\ pc[t] = "save_players"
    /\ find_player(players, aliases, parser[t].players[idx[t]]) = 0
    /\ pc' = [pc EXCEPT ![t] = "create_player"]
    /\ UNCHANGED <<storeVars, my_names, envVars, returned_id, replay_file, parser,
                   game_data, game_id, idx, decoded, result>>

\* Step 3) of get_or_create_player, INSERT INTO players: name is UNIQUE NOT
\* NULL, so a NULL name or a name another connection inserted meanwhile is an
\* IntegrityError that propagates out of process_replay; otherwise the new
\* player's id goes to insert_game_player.
SavePlayerCreate(t) ==
    /\ pc[t] = "create_player"
    /\ LET name == parser[t].players[idx[t]]
       IN IF name = None \/ \E p \in players : p.name = name
          THEN /\ Raise(t, "IntegrityError")
               /\ UNCHANGED <<players, game_players, returned_id>>
          ELSE /\ players' = players \cup {new_player(name)}
               /\ game_players' = game_players \cup
                     {game_player_row(t, next_id(players))}
               /\ NoteReturned(name, next_id(players))
               /\ LET nxt == after_player(parser[t], idx[t])
                  IN /\ pc' = [pc EXCEPT ![t] = nxt]
                     /\ idx' = [idx EXCEPT ![t] = IF nxt = "save_players"
                                                  THEN idx[t] + 1 ELSE 1]
                     /\ IF nxt = "returned"
                        THEN result' = [result EXCEPT ![t] = "game_data"]
                        ELSE UNCHANGED result
    /\ UNCHANGED <<aliases, games, chat_messages, my_names, envVars,
                   replay_file, parser, game_data, game_id, decoded>>

\* The loop of _save_chat, the same way.
SaveChatFound(t) ==
    /\ pc[t] = "save_chat"
    /\ LET name == parser[t].chat[idx[t]]
           pid == find_player(players, aliases, name)
       IN /\ pid # 0
          /\ chat_messages' = chat_messages \cup {chat_row(t, pid)}
          /\ NoteReturned(name, pid)
          /\ Advance(t, after_chat(parser[t], idx[t]))
    /\ UNCHANGED <<players, aliases, games, game_players, my_names, envVars,
                   replay_file, parser, game_data, game_id, decoded>>

SaveChatMissing(t) ==
    /\ pc[t] = "save_chat"
    /\ find_player(players, aliases, parser[t].chat[idx[t]]) = 0
    /\ pc' = [pc EXCEPT ![t] = "create_speaker"]
    /\ UNCHANGED <<storeVars, my_names, envVars, returned_id, replay_file, parser,
                   game_data, game_id, idx, decoded, result>>

SaveChatCreate(t) ==
    /\ pc[t] = "create_speaker"
    /\ LET name == parser[t].chat[idx[t]]
       IN IF name = None \/ \E p \in players : p.name = name
          THEN /\ Raise(t, "IntegrityError")
               /\ UNCHANGED <<players, chat_messages, returned_id>>
          ELSE /\ players' = players \cup {new_player(name)}
               /\ chat_messages' = chat_messages \cup
                     {chat_row(t, next_id(players))}
               /\ NoteReturned(name, next_id(players))
               /\ LET nxt == after_chat(parser[t], idx[t])
                  IN /\ pc' = [pc EXCEPT ![t] = nxt]
                     /\ idx' = [idx EXCEPT ![t] = IF nxt = "save_chat"
                                                  THEN idx[t] + 1 ELSE 1]
                     /\ IF nxt = "returned"
                        THEN result' = [result EXCEPT ![t] = "game_data"]
                        ELSE UNCHANGED result
    /\ UNCHANGED <<aliases, games, game_players, my_names, envVars,
                   replay_file, parser, game_data, game_id, decoded>>

----------------------------------------------------------------------------
(* Database writes used by the CLI commands, and RecordManager.detect_my_name. *)

\* Database.get_or_create_player as one unit of work: the id returned and the
\* players table afterwards.
get_or_create_player(ps, al, name) ==
    IF find_player(ps, al, name) # 0
    THEN [id |-> find_player(ps, al, name), players |-> ps]
    ELSE [id |-> Cardinality(ps) + 1,
          players |-> ps \cup {[id |-> Cardinality(ps) + 1, name |-> name,
                                is_me |-> FALSE]}]

\* Database.set_player_is_me(name, True): UPDATE players SET is_me = 1 WHERE
\* name = ?; no row named so, no change.
set_player_is_me(ps, name) ==
    { IF p.name = name THEN [p EXCEPT !.is_me = TRUE] ELSE p : p \in ps }

\* Database.add_alias: get_or_create_player(player_name), then INSERT OR IGNORE
\* INTO aliases; alt_name is UNIQUE, a second mapping of it is ignored.
add_alias_unresolved(ps, al, player_name, alt_name) ==
    LET exact == { p \in ps : p.name = player_name }
        pid == IF exact # {} THEN (CHOOSE p \in exact : TRUE).id ELSE Cardinality(ps) + 1
    IN [players |-> IF exact # {} THEN ps
                    ELSE ps \cup {[id |-> pid, name |-> player_name, is_me |-> FALSE]},
        aliases |-> IF \E a \in al : a.alt_name = alt_name THEN al
                    ELSE al \cup {[player_id |-> pid, alt_name |-> alt_name]}]
add_alias(ps, al, player_name, alt_name) ==
    LET r == get_or_create_player(ps, al, player_name)
    IN [players |-> r.players,
        aliases |-> IF \E a \in al : a.alt_name = alt_name THEN al
                    ELSE al \cup {[player_id |-> r.id, alt_name |-> alt_name]}]

\* set_player_is_me is an UPDATE of players only: the games table after it.
games_after_is_me_recomputed(name) ==
    { [g EXCEPT !.my_result = IF g.winner_name = name THEN "win"
                              ELSE IF g.loser_name = name THEN "loss"
                              ELSE g.my_result] : g \in games }
games_after_is_me(name) == games

\* main.cmd_set_name: get_or_create_player(name), set_player_is_me(name, True).
\* (config.add_my_name writes the configuration file, which seeds the overlay
\* of later processes only.)
CmdSetName(name) ==
    /\ LET r == get_or_create_player(players, aliases, name)
       IN /\ players' = set_player_is_me(r.players, name)
          /\ NoteReturned(name, r.id)
    /\ games' = games_after_is_me(name)
    /\ last' = [op |-> "set_name", args |-> <<name>>, ret |-> None]
    /\ UNCHANGED <<aliases, game_players, chat_messages, my_names,
                   ingestVars, batch, launcherVars, watcherVars>>

\* main.cmd_alias: db.add_alias(player, alt).
CmdAlias(player_name, alt_name) ==
    /\ LET r == add_alias(players, aliases, player_name, alt_name)
       IN /\ players' = r.players
          /\ aliases' = r.aliases
    /\ NoteReturned(player_name,
                    get_or_create_player(players, aliases, player_name).id)
    /\ last' = [op |-> "alias", args |-> <<player_name, alt_name>>, ret |-> None]
    /\ UNCHANGED <<games, game_players, chat_messages, my_names,
                   ingestVars, batch, launcherVars, watcherVars>>

\* A sequence of the rows R in non-increasing order of count.  SQL leaves the
\* order of rows with equal counts open; nothing below depends on it.
RECURSIVE sort_by_count(_)
sort_by_count(R) ==
    IF R = {} THEN <<>>
    ELSE LET r == CHOOSE x \in R : \A y \in R : x.count >= y.count
         IN <<r>> \o sort_by_count(R \ {r})

\* Database.get_player_name_counts: the per-winner counts UNION ALL the
\* per-loser counts, ORDER BY count DESC.
get_player_name_counts ==
    sort_by_count(
        { [name |-> n, count |-> Cardinality({g \in games : g.winner_name = n}),
           role |-> "winner"] : n \in {g.winner_name : g \in games} \ {None} }
        \cup
        { [name |-> n, count |-> Cardinality({g \in games : g.loser_name = n}),
           role |-> "loser"] : n \in {g.loser_name : g \in games} \ {None} })

\* Database.get_my_names as the list Python sees: the is_me rows in rowid order.
RECURSIVE names_by_id(_)
names_by_id(ps) ==
    IF ps = {} THEN <<>>
    ELSE LET p == CHOOSE x \in ps : \A y \in ps : x.id <= y.id
         IN <<p.name>> \o names_by_id(ps \ {p})
get_my_names_list == names_by_id({ p \in players : p.is_me })

\* RecordManager.detect_my_name: what it returns, and whether it marks.
detect_my_name ==
    LET counts == get_player_name_counts
        existing == get_my_names_list
    IN IF counts = <<>> THEN [ret |-> None, mark |-> FALSE]
       ELSE IF existing # <<>> THEN [ret |-> existing[1], mark |-> FALSE]
       ELSE IF Len(counts) >= 2 /\ counts[1].count <= counts[2].count
            THEN [ret |-> None, mark |-> FALSE]
       ELSE [ret |-> counts[1].name, mark |-> TRUE]

DetectMyName ==
    /\ LET d == detect_my_name
       IN /\ last' = [op |-> "detect_my_name", args |-> <<>>, ret |-> d.ret]
          /\ IF d.mark
             THEN /\ players' = set_player_is_me(players, d.ret)
                  /\ games' = games_after_is_me(d.ret)
                  /\ my_names' = my_names \cup {d.ret}
             ELSE UNCHANGED <<players, games, my_names>>
    /\ UNCHANGED <<aliases, game_players, chat_messages, returned_id,
                   ingestVars, batch, launcherVars, watcherVars>>

----------------------------------------------------------------------------
(* RecordManager.import_folder, run by caller t1.                           *)

\* The file names in ascending text order.
FileTexts == <<F1, F2, F3, F4>>
file_rank(f) == CHOOSE i \in 1..Len(FileTexts) : FileTexts[i] = f

\* sorted(folder.glob("**/*.rep"))
RECURSIVE sorted_files(_)
sorted_files(S) ==
    IF S = {} THEN <<>>
    ELSE LET f == CHOOSE x \in S : \A y \in S : file_rank(x) <= file_rank(y)
         IN <<f>> \o sorted_files(S \ {f})

NoBatch == [state |-> "idle", files |-> <<>>, pos |-> 0, count |-> 0]

\* import_folder is entered with the folder's replay files: count = 0.
ImportFolder(folder) ==
    /\ batch.state = "idle"
    /\ ~InCall("t1")
    /\ batch' = [state |-> "loop", files |-> sorted_files(folder), pos |-> 0,
                 count |-> 0]
    /\ UNCHANGED <<storeVars, my_names, ingestVars, last, returned_id, watcherVars,
                   launcherVars>>

\* The for loop takes the next file and calls process_replay on it.
ImportNext ==
    /\ batch.state = "loop"
    /\ batch.pos < Len(batch.files)
    /\ pre_check("t1", batch.files[batch.pos + 1])
    /\ batch' = [batch EXCEPT !.state = "call", !.pos = batch.pos + 1]
    /\ UNCHANGED launcherVars

\* process_replay returned: count += 1 unless the result is None.
ImportCounted ==
    /\ batch.state = "call"
    /\ pc["t1"] = "returned"
    /\ batch' = [batch EXCEPT !.state = "loop",
                              !.count = IF result["t1"] = "None"
                                        THEN batch.count ELSE batch.count + 1]
    /\ UNCHANGED <<storeVars, my_names, ingestVars, last, returned_id, watcherVars,
                   launcherVars>>

\* process_replay raised: import_folder has no handler, the exception leaves
\* it and the remaining files are not visited.
ImportRaised ==
    /\ batch.state = "call"
    /\ pc["t1"] = "raised"
    /\ batch' = [batch EXCEPT !.state = "raised"]
    /\ UNCHANGED <<storeVars, my_names, ingestVars, last, returned_id, watcherVars,
                   launcherVars>>

\* The loop is over: return count.
ImportReturn ==
    /\ batch.state = "loop"
    /\ batch.pos = Len(batch.files)
    /\ batch' = [batch EXCEPT !.state = "returned"]
    /\ UNCHANGED <<storeVars, my_names, ingestVars, last, returned_id, watcherVars,
                   launcherVars>>

----------------------------------------------------------------------------
(* Database: the aggregation queries, and the CLI commands that run them.  *)

\* The date texts of the file names, in ascending text order (SQLite compares
\* TEXT byte by byte).
DateTexts == <<"2026-02-07", "2026-02-08">>

\* The sort key of a played_at value: NULL sorts before every text.
played_at_key(p) ==
    IF p = Null THEN 0
    ELSE (CHOOSE i \in 1..Len(DateTexts) : DateTexts[i] = p[1]) * 1000000
         + p[2][1] * 100000 + p[2][2] * 10000
         + p[3][1] * 1000 + p[3][2] * 100
         + p[4][1] * 10 + p[4][2]

\* ORDER BY played_at DESC: latest first, NULLs last; rows with equal played_at
\* come in rowid order.
RECURSIVE order_by_rowid(_)
order_by_rowid(G) ==
    IF G = {} THEN <<>>
    ELSE LET g == CHOOSE x \in G : \A y \in G : x.id <= y.id
         IN <<g>> \o order_by_rowid(G \ {g})
RECURSIVE order_by_played_at_desc(_)
order_by_played_at_desc(G) ==
    IF G = {} THEN <<>>
    ELSE LET g == CHOOSE x \in G : \A y \in G :
                    \/ played_at_key(x.played_at) > played_at_key(y.played_at)
                    \/ /\ played_at_key(x.played_at) = played_at_key(y.played_at)
                       /\ x.id <= y.id
         IN <<g>> \o order_by_played_at_desc(G \ {g})

\* The classification of one row in the loop of get_record_vs.
vs_result_stored(game, resolved, mine) == game.my_result
vs_result(game, resolved, mine) ==
    IF game.winner_name \in mine /\ game.loser_name = resolved THEN "win"
    ELSE IF game.loser_name \in mine /\ game.winner_name = resolved THEN "loss"
    ELSE "unknown"

\* Database.get_record_vs
get_record_vs(opponent_name) ==
    LET resolved == resolve_player_name(opponent_name)
        rows == order_by_played_at_desc(
                    {g \in games : g.winner_name = resolved \/ g.loser_name = resolved})
        mine == get_my_names
        list == [i \in 1..Len(rows) |->
                    [vs_result |-> vs_result(rows[i], resolved, mine)] @@ rows[i]]
        wins == Cardinality({i \in 1..Len(list) : list[i].vs_result = "win"})
        losses == Cardinality({i \in 1..Len(list) : list[i].vs_result = "loss"})
    IN [opponent |-> resolved, wins |-> wins, losses |-> losses,
        total |-> wins + losses, games |-> list]

\* main.cmd_record: manager.get_record(opponent).
CmdRecord(opponent_name) ==
    /\ last' = [op |-> "record", args |-> <<opponent_name>>,
                ret |-> get_record_vs(opponent_name)]
    /\ UNCHANGED <<storeVars, my_names, ingestVars, batch, launcherVars, returned_id, watcherVars>>

\* The player names in ascending text order (Python compares str by code point).
NameTexts == <<"A", "B", "C">>
name_rank(n) == CHOOSE i \in 1..Len(NameTexts) : NameTexts[i] = n

\* sorted(stats.items()): the names of S in ascending order.
RECURSIVE sorted_names(_)
sorted_names(S) ==
    IF S = {} THEN <<>>
    ELSE LET n == CHOOSE x \in S : \A y \in S : name_rank(x) <= name_rank(y)
         IN <<n>> \o sorted_names(S \ {n})

\* The opponent and result get_all_opponents derives from one row, or the row
\* is skipped.  A NULL name is in no set and is falsy.
opponent_of_any_side(game, mine) ==
    IF game.winner_name \in mine /\ game.loser_name # None
    THEN [opponent |-> game.loser_name, result |-> "win"]
    ELSE IF game.loser_name \in mine /\ game.winner_name # None
    THEN [opponent |-> game.winner_name, result |-> "loss"]
    ELSE [opponent |-> None, result |-> "skip"]
opponent_of(game, mine) ==
    IF /\ game.winner_name \in mine
       /\ game.loser_name # None /\ game.loser_name \notin mine
    THEN [opponent |-> game.loser_name, result |-> "win"]
    ELSE IF /\ game.loser_name \in mine
            /\ game.winner_name # None /\ game.winner_name \notin mine
    THEN [opponent |-> game.winner_name, result |-> "loss"]
    ELSE [opponent |-> None, result |-> "skip"]

\* stats[opponent]["last_played"] after the scan, at being the positions of
\* the opponent's rows in it: it is set while it is still None, so it is the
\* played_at of the first of these rows whose played_at is not NULL.
last_played_overwritten(rows, at) ==
    rows[CHOOSE i \in at : \A j \in at : i >= j].played_at
last_played(rows, at) ==
    LET dated == {i \in at : rows[i].played_at # Null}
    IN IF dated = {} THEN Null
       ELSE rows[CHOOSE i \in dated : \A j \in dated : i <= j].played_at

\* Database.get_all_opponents: the scan of the rows in played_at DESC order.
get_all_opponents ==
    LET mine == get_my_names
        rows == order_by_played_at_desc(games)
        opp == [i \in 1..Len(rows) |-> opponent_of(rows[i], mine)]
        stats == {opp[i].opponent : i \in 1..Len(rows)} \ {None}
        order == sorted_names(stats)
        entry(n) ==
            LET w == Cardinality({i \in 1..Len(rows) :
                        opp[i] = [opponent |-> n, result |-> "win"]})
                l == Cardinality({i \in 1..Len(rows) :
                        opp[i] = [opponent |-> n, result |-> "loss"]})
            IN [opponent |-> n, wins |-> w, losses |-> l, total |-> w + l,
                last_played |->
                    last_played(rows, {i \in 1..Len(rows) : opp[i].opponent = n})]
    IN IF mine = {} THEN <<>>
       ELSE [k \in 1..Len(order) |-> entry(order[k])]

\* main.cmd_records: manager.get_all_records().
CmdRecords ==
    /\ last' = [op |-> "records", args |-> <<>>, ret |-> get_all_opponents]
    /\ UNCHANGED <<storeVars, my_names, ingestVars, batch, launcherVars, returned_id, watcherVars>>

----------------------------------------------------------------------------
(* The record texts, and the watcher's callback built by main.               *)

\* text[:10] of a played_at text: its date part.
date_part(p) == p[1]

\* The first five rows of a games list.
first_five(list) == SubSeq(list, 1, IF Len(list) < 5 THEN Len(list) ELSE 5)

\* RecordManager.format_record: the text, as its parts, or the TypeError that
\* game.get("played_at", "?")[:10] raises for a row whose played_at is None
\* (the key is there, so the default does not apply).  map_tileset is not
\* part of the model: a row without map_name shows "?".
format_record(record) ==
    IF record.total = 0
    THEN [raised |-> "None", head |-> <<record.opponent, "no record">>, lines |-> <<>>]
    ELSE LET rows == first_five(record.games)
         IN IF \E i \in 1..Len(rows) : rows[i].played_at = Null
            THEN [raised |-> "TypeError", head |-> <<>>, lines |-> <<>>]
            ELSE [raised |-> "None",
                  head |-> <<record.opponent, record.wins, record.losses, record.total>>,
                  lines |-> [i \in 1..Len(rows) |->
                               <<date_part(rows[i].played_at), rows[i].vs_result,
                                 IF rows[i].map_name # None THEN rows[i].map_name ELSE "?",
                                 rows[i].duration_text>>]]

\* RecordManager.format_record_short
format_record_short(record) ==
    IF record.total = 0
    THEN <<record.opponent, "first match">>
    ELSE <<record.opponent, record.wins, record.losses,
           IF record.games # <<>> /\ record.games[1].played_at # Null
           THEN date_part(record.games[1].played_at) ELSE "">>

\* on_new_replay picks the opponent of the new game: the other side when one
\* side is a local name, else the winner or, without one, the loser.
callback_opponent(gd) ==
    IF gd.winner_name \in all_my_names THEN gd.loser_name
    ELSE IF gd.loser_name \in all_my_names THEN gd.winner_name
    ELSE IF gd.winner_name # None THEN gd.winner_name ELSE gd.loser_name

\* on_new_replay after process_replay returned game data gd: what it emits.
\* Both texts are built before the first of them is printed.
on_new_replay(gd) ==
    IF callback_opponent(gd) = None
    THEN [outcome |-> "no_opponent", short |-> <<>>, detail |-> <<>>]
    ELSE LET record == get_record_vs(callback_opponent(gd))
             short == format_record_short(record)
             detail == format_record(record)
         IN IF detail.raised # "None"
            THEN [outcome |-> detail.raised, short |-> <<>>, detail |-> <<>>]
            ELSE [outcome |-> "emitted", short |-> short,
                  detail |-> <<detail.head, detail.lines>>]

\* The callback of caller t goes on after process_replay returned a game
\* record, and ends.  (When process_replay returned None it ends at once.)
OnNewReplay(t) ==
    /\ pc[t] = "returned"
    /\ result[t] = "game_data"
    /\ pc' = [pc EXCEPT ![t] = "idle"]
    /\ last' = [op |-> "on_new_replay", args |-> <<replay_file[t]>>,
                ret |-> on_new_replay(game_data[t])]
    /\ UNCHANGED <<storeVars, my_names, returned_id, watcherVars, batch, launcherVars,
                   replay_file, parser, game_data, game_id, idx, decoded, result>>

----------------------------------------------------------------------------
(* src/watcher.py: ReplayHandler and ReplayWatcher.  The Observer dispatches  *)
(* the queued events one at a time on its own thread, so one _handle runs at *)
(* a time; file-system changes go on while it sleeps.                        *)

\* The settle delay in seconds; the model keeps only that the file system may
\* change while _handle sleeps.
SETTLE_DELAY == 3

\* Bound: the number of file-system events queued in one run.
MaxEvents == 3

\* Watched paths (the watch is recursive): directory, stem, suffix.
P1 == [dir |-> "d1", stem |-> "a", suffix |-> ".rep"]
P2 == [dir |-> "d2", stem |-> "a", suffix |-> ".rep"]
P3 == [dir |-> "d1", stem |-> "b", suffix |-> ".REP"]
P4 == [dir |-> "d1", stem |-> "n", suffix |-> ".txt"]
WatchPaths == {P1, P2, P3, P4}
NoPath == [dir |-> "", stem |-> "", suffix |-> ""]

\* Path.name
path_name(p) == <<p.stem, p.suffix>>
WatchNames == { path_name(p) : p \in WatchPaths }

\* path.suffix.lower()
suffix_lower(p) ==
    CASE p.suffix = ".REP" -> ".rep"
      [] p.suffix = ".Rep" -> ".rep"
      [] OTHER -> p.suffix

NoHist == [calls |-> 0, raised |-> FALSE, deduped |-> FALSE, deferred |-> FALSE]

\* ReplayWatcher.start: observer.schedule, observer.start.
Start ==
    /\ observer = "new"
    /\ observer' = "running"
    /\ UNCHANGED <<storeVars, my_names, ingestVars, batch, launcherVars, last, returned_id,
                   processed, wpc, wpath, fs, event_queue, hist, n_events>>

\* The watched tree is followed from the watcher's start to its stop.
Watching == observer \in {"running", "stopping"}

\* The file system: the emitter queues an event while the observer runs.
Emit(e) ==
    IF observer = "running"
    THEN /\ n_events < MaxEvents
         /\ event_queue' = Append(event_queue, e)
         /\ n_events' = n_events + 1
    ELSE UNCHANGED <<event_queue, n_events>>

\* A file appears: still empty, or with its content (moved or copied in).
FsCreate(p, size) ==
    /\ Watching
    /\ fs[p] = "absent"
    /\ fs' = [fs EXCEPT ![p] = size]
    /\ Emit([kind |-> "created", is_directory |-> FALSE, src_path |-> p])
    /\ UNCHANGED <<storeVars, my_names, ingestVars, batch, launcherVars, last, returned_id,
                   processed, wpc, wpath, hist, observer>>

\* Data is written to a file.
FsWrite(p) ==
    /\ Watching
    /\ fs[p] # "absent"
    /\ fs' = [fs EXCEPT ![p] = "full"]
    /\ Emit([kind |-> "modified", is_directory |-> FALSE, src_path |-> p])
    /\ UNCHANGED <<storeVars, my_names, ingestVars, batch, launcherVars, last, returned_id,
                   processed, wpc, wpath, hist, observer>>

\* A file is removed (on_deleted is not overridden: no handling).
FsDelete(p) ==
    /\ Watching
    /\ fs[p] # "absent"
    /\ fs' = [fs EXCEPT ![p] = "absent"]
    /\ UNCHANGED <<storeVars, my_names, ingestVars, batch, launcherVars, last, returned_id,
                   processed, wpc, wpath, event_queue, hist, n_events, observer>>

\* A directory of the tree changes.
FsDirChange ==
    /\ observer = "running"
    /\ Emit([kind |-> "modified", is_directory |-> TRUE, src_path |-> NoPath])
    /\ UNCHANGED <<storeVars, my_names, ingestVars, batch, launcherVars, last, returned_id,
                   processed, wpc, wpath, fs, hist, observer>>

\* _handle line 43: the one-shot guard.
already_processed_never(name) == FALSE
already_processed(name) == name \in processed

\* on_created / on_modified and _handle up to the sleep: directory events and
\* other suffixes are dropped, and so are names already processed; otherwise
\* the thread sleeps SETTLE_DELAY seconds.
Dispatch ==
    /\ observer = "running"
    /\ wpc = "idle"
    /\ event_queue # <<>>
    /\ event_queue' = Tail(event_queue)
    /\ LET e == Head(event_queue)
           p == e.src_path
       IN IF e.is_directory \/ suffix_lower(p) # ".rep"
          THEN UNCHANGED <<wpc, wpath, hist>>
          ELSE IF already_processed(path_name(p))
               THEN /\ hist' = [hist EXCEPT ![path_name(p)].deduped = TRUE]
                    /\ UNCHANGED <<wpc, wpath>>
               ELSE /\ wpc' = "settling"
                    /\ wpath' = p
                    /\ UNCHANGED hist
    /\ UNCHANGED <<storeVars, my_names, ingestVars, batch, launcherVars, last, returned_id,
                   processed, fs, n_events, observer>>

\* _handle lines 51-55: _processed after the size check.
processed_marked_before_check(name, size) == processed \cup {name}
processed_after_check(name, size) ==
    IF size = "empty" THEN processed ELSE processed \cup {name}

\* _handle after the sleep: path.stat() raises FileNotFoundError for a file
\* that is gone, and nothing between here and the observer thread's run loop
\* catches it, so the thread ends; a file of size 0 is skipped; otherwise the
\* name is marked processed and the callback is called.
Settled ==
    /\ wpc = "settling"
    /\ IF fs[wpath] = "absent"
       THEN /\ wpc' = "crashed"
            /\ UNCHANGED <<processed, hist>>
       ELSE /\ processed' = processed_after_check(path_name(wpath), fs[wpath])
            /\ IF fs[wpath] = "empty"
               THEN /\ wpc' = "idle"
                    /\ hist' = [hist EXCEPT ![path_name(wpath)].deferred = TRUE]
               ELSE /\ wpc' = "callback"
                    /\ hist' = [hist EXCEPT ![path_name(wpath)].calls = @ + 1]
    /\ UNCHANGED <<storeVars, my_names, ingestVars, batch, launcherVars, last, returned_id,
                   wpath, fs, event_queue, n_events, observer>>

\* The callback returns.
CallbackReturn ==
    /\ wpc = "callback"
    /\ wpc' = "idle"
    /\ UNCHANGED <<storeVars, my_names, ingestVars, batch, launcherVars, last, returned_id,
                   processed, wpath, fs, event_queue, hist, n_events, observer>>

\* _handle lines 59-60: the except clause logs and does nothing else.
processed_retry_on_error(name) == processed \ {name}
processed_after_error(name) == processed

\* The callback raises: caught and logged.
CallbackRaise ==
    /\ wpc = "callback"
    /\ wpc' = "idle"
    /\ processed' = processed_after_error(path_name(wpath))
    /\ hist' = [hist EXCEPT ![path_name(wpath)].raised = TRUE]
    /\ UNCHANGED <<storeVars, my_names, ingestVars, batch, launcherVars, last, returned_id,
                   wpath, fs, event_queue, n_events, observer>>

\* observer.join() has no timeout: it returns when the observer thread is not
\* inside a handler any more (the run loop then sees the stop request).
join_returns_on_timeout == TRUE
join_returns == wpc \in {"idle", "crashed"}

\* ReplayWatcher.stop: observer.stop() asks the thread to end ...
StopRequest ==
    /\ observer = "running"
    /\ observer' = "stopping"
    /\ UNCHANGED <<storeVars, my_names, ingestVars, batch, launcherVars, last, returned_id,
                   processed, wpc, wpath, fs, event_queue, hist, n_events>>

\* ... and observer.join() returns once the thread has ended: after the
\* handler it was running, or at once when the thread had ended already.
Joined ==
    /\ observer = "stopping"
    /\ join_returns
    /\ observer' = "stopped"
    /\ UNCHANGED <<storeVars, my_names, ingestVars, batch, launcherVars, last, returned_id,
                   processed, wpc, wpath, fs, event_queue, hist, n_events>>

----------------------------------------------------------------------------
(* src/launcher.py: daemon_mode and launch_mode.  A ReplayWatcher is followed
   by the life cycle of its observer: new, running (start), stopping
   (observer.stop() inside stop), stopped (observer.join() returned).
   KeyboardInterrupt is raised in the main thread at any position.         *)

MaxWatchers == 3
MaxInterrupts == 1

NoWatchers == [w \in 1..MaxWatchers |-> "none"]

\* ReplayWatcher(replay_dir, on_new_replay): the next object.
new_watcher == Cardinality({w \in 1..MaxWatchers : watchers[w] # "none"}) + 1

\* The watchers whose observer thread has been started and not joined.
active == {w \in 1..MaxWatchers : watchers[w] \in {"running", "stopping"}}

\* is_starcraft_running: whether tasklist shows the process; a failing
\* tasklist is caught and gives False.
is_starcraft_running == IF sc_proc THEN {TRUE, FALSE} ELSE {FALSE}

\* The positions inside the try blocks, whose KeyboardInterrupt is caught.
DaemonTry == {"d_poll", "d_start", "d_stop", "d_join", "d_sleep"}
LaunchTry == {"l_wait", "l_poll"}

\* main.cmd_daemon and main.cmd_launch enter the functions.
CmdDaemon ==
    /\ lpc = "idle"
    /\ lpc' = "d_poll"
    /\ UNCHANGED <<storeVars, my_names, ingestVars, batch, last, returned_id,
                   watcherVars, sc_proc, sc_running, sc_was_running, watcher,
                   watchers, interrupts>>

CmdLaunch ==
    /\ lpc = "idle"
    /\ lpc' = "l_start"
    /\ UNCHANGED <<storeVars, my_names, ingestVars, batch, last, returned_id,
                   watcherVars, sc_proc, sc_running, sc_was_running, watcher,
                   watchers, interrupts>>

\* The game process starts or ends.
ScToggle ==
    /\ lpc \notin {"idle", "done", "raised"}
    /\ sc_proc' = ~sc_proc
    /\ UNCHANGED <<storeVars, my_names, ingestVars, batch, last, returned_id,
                   watcherVars, lpc, sc_running, sc_was_running, watcher,
                   watchers, interrupts>>

\* daemon_mode's branch conditions.
should_start_every_poll(running, was_running) == running
should_start(running, was_running) == running /\ ~was_running
should_stop(running, was_running) == ~running /\ was_running

\* daemon_mode, the head of the loop: the poll and the branch.  A started
\* game makes the next ReplayWatcher; an ended game goes to watcher.stop()
\* when there is a watcher; else the iteration ends.
DaemonPoll ==
    /\ lpc = "d_poll"
    /\ \E r \in is_starcraft_running :
         /\ sc_running' = r
         /\ IF should_start(r, sc_was_running)
            THEN /\ new_watcher <= MaxWatchers
                 /\ watcher' = new_watcher
                 /\ watchers' = [watchers EXCEPT ![new_watcher] = "new"]
                 /\ lpc' = "d_start"
                 /\ UNCHANGED sc_was_running
            ELSE IF should_stop(r, sc_was_running) /\ watcher # 0
            THEN /\ lpc' = "d_stop"
                 /\ UNCHANGED <<watcher, watchers, sc_was_running>>
            ELSE /\ lpc' = "d_sleep"
                 /\ sc_was_running' = r
                 /\ UNCHANGED <<watcher, watchers>>
    /\ UNCHANGED <<storeVars, my_names, ingestVars, batch, last, returned_id,
                   watcherVars, sc_proc, interrupts>>

\* watcher.start(), on_sc_start(), sc_was_running = sc_running.
DaemonStart ==
    /\ lpc = "d_start"
    /\ watchers' = [watchers EXCEPT ![watcher] = "running"]
    /\ sc_was_running' = sc_running
    /\ lpc' = "d_sleep"
    /\ UNCHANGED <<storeVars, my_names, ingestVars, batch, last, returned_id,
                   watcherVars, sc_proc, sc_running, watcher, interrupts>>

\* watcher.stop(): observer.stop() ...
DaemonStop ==
    /\ lpc = "d_stop"
    /\ watchers' = [watchers EXCEPT ![watcher] = "stopping"]
    /\ lpc' = "d_join"
    /\ UNCHANGED <<storeVars, my_names, ingestVars, batch, last, returned_id,
                   watcherVars, sc_proc, sc_running, sc_was_running, watcher,
                   interrupts>>

\* ... observer.join() returns; watcher = None, on_sc_stop(),
\* sc_was_running = sc_running.
DaemonJoin ==
    /\ lpc = "d_join"
    /\ watchers' = [watchers EXCEPT ![watcher] = "stopped"]
    /\ watcher' = 0
    /\ sc_was_running' = sc_running
    /\ lpc' = "d_sleep"
    /\ UNCHANGED <<storeVars, my_names, ingestVars, batch, last, returned_id,
                   watcherVars, sc_proc, sc_running, interrupts>>

\* time.sleep(POLL_INTERVAL) is over.
DaemonSleep ==
    /\ lpc = "d_sleep"
    /\ lpc' = "d_poll"
    /\ UNCHANGED <<storeVars, my_names, ingestVars, batch, last, returned_id,
                   watcherVars, sc_proc, sc_running, sc_was_running, watcher,
                   watchers, interrupts>>

\* finally: if watcher: watcher.stop().  observer.stop() on a running observer;
\* on an observer that was never started join() raises RuntimeError.
DaemonFinally ==
    /\ lpc = "d_finally"
    /\ IF watcher = 0
       THEN lpc' = "done" /\ UNCHANGED watchers
       ELSE IF watchers[watcher] = "new"
       THEN lpc' = "raised" /\ UNCHANGED watchers
       ELSE /\ watchers' = [watchers EXCEPT ![watcher] = "stopping"]
            /\ lpc' = "d_fin_join"
    /\ UNCHANGED <<storeVars, my_names, ingestVars, batch, last, returned_id,
                   watcherVars, sc_proc, sc_running, sc_was_running, watcher,
                   interrupts>>

DaemonFinallyJoin ==
    /\ lpc = "d_fin_join"
    /\ watchers' = [watchers EXCEPT ![watcher] = "stopped"]
    /\ lpc' = "done"
    /\ UNCHANGED <<storeVars, my_names, ingestVars, batch, last, returned_id,
                   watcherVars, sc_proc, sc_running, sc_was_running, watcher,
                   interrupts>>

\* launch_mode: watcher = ReplayWatcher(...); watcher.start().
LaunchStart ==
    /\ lpc = "l_start"
    /\ watcher' = new_watcher
    /\ watchers' = [watchers EXCEPT ![new_watcher] = "running"]
    /\ lpc' = "l_launch"
    /\ UNCHANGED <<storeVars, my_names, ingestVars, batch, last, returned_id,
                   watcherVars, sc_proc, sc_running, sc_was_running, interrupts>>

\* launch_starcraft(sc_path): the process object, or None and watcher.stop().
LaunchStarcraft(launched) ==
    /\ lpc = "l_launch"
    /\ lpc' = IF launched THEN "l_wait" ELSE "l_stop"
    /\ UNCHANGED <<storeVars, my_names, ingestVars, batch, last, returned_id,
                   watcherVars, sc_proc, sc_running, sc_was_running, watcher,
                   watchers, interrupts>>

\* proc.wait() returns.
LaunchWait ==
    /\ lpc = "l_wait"
    /\ lpc' = "l_poll"
    /\ UNCHANGED <<storeVars, my_names, ingestVars, batch, last, returned_id,
                   watcherVars, sc_proc, sc_running, sc_was_running, watcher,
                   watchers, interrupts>>

\* while is_starcraft_running(): time.sleep(POLL_INTERVAL); then finally.
LaunchPoll ==
    /\ lpc = "l_poll"
    /\ \E r \in is_starcraft_running : lpc' = IF r THEN "l_poll" ELSE "l_stop"
    /\ lpc' # lpc
    /\ UNCHANGED <<storeVars, my_names, ingestVars, batch, last, returned_id,
                   watcherVars, sc_proc, sc_running, sc_was_running, watcher,
                   watchers, interrupts>>

\* watcher.stop() of launch_mode (after a failed launch, or in finally).
LaunchStop ==
    /\ lpc = "l_stop"
    /\ watchers' = [watchers EXCEPT ![watcher] = "stopping"]
    /\ lpc' = "l_join"
    /\ UNCHANGED <<storeVars, my_names, ingestVars, batch, last, returned_id,
                   watcherVars, sc_proc, sc_running, sc_was_running, watcher,
                   interrupts>>

LaunchJoin ==
    /\ lpc = "l_join"
    /\ watchers' = [watchers EXCEPT ![watcher] = "stopped"]
    /\ lpc' = "done"
    /\ UNCHANGED <<storeVars, my_names, ingestVars, batch, last, returned_id,
                   watcherVars, sc_proc, sc_running, sc_was_running, watcher,
                   interrupts>>

\* KeyboardInterrupt in the main thread: inside a try block it is caught and
\* the finally clause runs; anywhere else it leaves the function.
Interrupt ==
    /\ lpc \notin {"idle", "done", "raised"}
    /\ interrupts < MaxInterrupts
    /\ interrupts' = interrupts + 1
    /\ lpc' = IF lpc \in DaemonTry THEN "d_finally"
              ELSE IF lpc \in LaunchTry THEN "l_stop"
              ELSE "raised"
    /\ UNCHANGED <<storeVars, my_names, ingestVars, batch, last, returned_id,
                   watcherVars, sc_proc, sc_running, sc_was_running, watcher,
                   watchers>>

InitLauncher ==
    /\ lpc = "idle"
    /\ sc_proc = FALSE
    /\ sc_running = FALSE
    /\ sc_was_running = FALSE
    /\ watcher = 0
    /\ watchers = NoWatchers
    /\ interrupts = 0

----------------------------------------------------------------------------
(* Specifications.                                                         *)

InitStore ==
    /\ players = {}
    /\ aliases = {}
    /\ games = {}
    /\ game_players = {}
    /\ chat_messages = {}

InitIngest ==
    /\ pc = [t \in Threads |-> "idle"]
    /\ replay_file = [t \in Threads |-> F3]
    /\ parser = [t \in Threads |-> NoSummary]
    /\ game_data = [t \in Threads |-> NoGameData]
    /\ game_id = [t \in Threads |-> 0]
    /\ idx = [t \in Threads |-> 0]
    /\ decoded = [t \in Threads |-> FALSE]
    /\ result = [t \in Threads |-> "pending"]

InitCli ==
    /\ last = [op |-> "none", args |-> <<>>, ret |-> None]
    /\ returned_id = [n \in Names |-> 0]

InitBatch == batch = NoBatch

InitWatcher ==
    /\ processed = {}
    /\ wpc = "idle"
    /\ wpath = NoPath
    /\ fs = [p \in WatchPaths |-> "absent"]
    /\ event_queue = <<>>
    /\ hist = [n \in WatchNames |-> NoHist]
    /\ n_events = 0
    /\ observer = "new"

\* The steps of process_replay by caller t, on the files FS with the decoder
\* summaries SS.
IngestPlayers(t, FS, SS) ==
    \/ \E f \in FS : Call(t, f)
    \/ ParseFail(t)
    \/ \E s \in SS : ParseOk(t, s)
    \/ InsertGame(t)
    \/ SavePlayerFound(t)
    \/ SavePlayerMissing(t)
    \/ SavePlayerCreate(t)

\* The steps of a process_replay call once it is past the pre-check.
IngestPlayersBody(t, SS) ==
    \/ ParseFail(t)
    \/ \E s \in SS : ParseOk(t, s)
    \/ InsertGame(t)
    \/ SavePlayerFound(t)
    \/ SavePlayerMissing(t)
    \/ SavePlayerCreate(t)

Ingest(t, FS, SS) ==
    \/ IngestPlayers(t, FS, SS)
    \/ SaveChatFound(t)
    \/ SaveChatMissing(t)
    \/ SaveChatCreate(t)

\* Spec: concurrent ingestion, two callers, two files, matches between A and B.
IngestNames == {"A", "B"}
IngestFiles == {F1, F3}
IngestSummaries == Summaries(IngestNames, {<<>>, <<"A">>, <<"C">>})

Init ==
    /\ InitStore
    /\ InitIngest
    /\ InitCli
    /\ InitWatcher
    /\ InitBatch
    /\ InitLauncher
    /\ my_names = {}

Next == \E t \in Threads : Ingest(t, IngestFiles, IngestSummaries)

Spec == Init /\ [][Next]_vars

\* SpecStore: the CLI commands set-name and alias on the names A and B, with one
\* caller ingesting one file of a match between B and C.
StoreFiles == {F1}
StoreSummaries ==
    { [players |-> <<"B", "C">>, winner |-> "B", loser |-> "C", chat |-> c,
       map_name |-> "Lost Temple", duration |-> d, actual_duration |-> "09:58"] :
        c \in {<<"B">>, <<"A">>}, d \in {"10:00", None} }

StoreNames == {"A", "B"}

NextStore ==
    \/ \E n \in StoreNames : CmdSetName(n)
    \/ \E n \in StoreNames, a \in StoreNames : CmdAlias(n, a)
    \/ Ingest("t1", StoreFiles, StoreSummaries)

SpecStore == Init /\ [][NextStore]_vars

\* SpecAlias: the CLI commands set-name and alias on all names.
NextAlias ==
    \/ \E n \in Names : CmdSetName(n)
    \/ \E n \in Names, a \in Names : CmdAlias(n, a)

SpecAlias == Init /\ [][NextAlias]_vars

\* SpecWatcher: one watcher, from start to stop, over the watched paths.
NextWatcher ==
    \/ Start
    \/ \E p \in WatchPaths, size \in {"empty", "full"} : FsCreate(p, size)
    \/ \E p \in WatchPaths : FsWrite(p)
    \/ \E p \in WatchPaths : FsDelete(p)
    \/ FsDirChange
    \/ Dispatch
    \/ Settled
    \/ CallbackReturn
    \/ CallbackRaise
    \/ StopRequest
    \/ Joined

SpecWatcher == Init /\ [][NextWatcher]_vars

\* SpecInfer: sequential ingestion of four files with decided matches between
\* A, B and C (no chat lines), and identity inference.
InferSummaries == {s \in Summaries(Names, {<<>>}) : s.loser # None}

NextInfer ==
    \/ DetectMyName
    \/ IngestPlayers("t1", Files, InferSummaries)

SpecInfer == Init /\ [][NextInfer]_vars

\* SpecIdentity: set-name, identity inference and sequential ingestion of two
\* files with decided matches between A, B and C.
IdentityFiles == {F1, F3}

NextIdentity ==
    \/ \E n \in Names : CmdSetName(n)
    \/ DetectMyName
    \/ IngestPlayers("t1", IdentityFiles, InferSummaries)

SpecIdentity == Init /\ [][NextIdentity]_vars

\* SpecImport: import_folder by caller t1 over a folder with some of two
\* files, while caller t2 (the watcher's callback) ingests the same files;
\* matches between A and B, no chat lines.
ImportFiles == {F1, F3}
ImportSummaries == Summaries(IngestNames, {<<>>})

NextImport ==
    \/ \E folder \in SUBSET ImportFiles : ImportFolder(folder)
    \/ ImportNext
    \/ ImportCounted
    \/ ImportRaised
    \/ ImportReturn
    \/ IngestPlayersBody("t1", ImportSummaries)
    \/ IngestPlayers("t2", ImportFiles, ImportSummaries)

SpecImport == Init /\ [][NextImport]_vars

\* SpecResult: a RecordManager built with the configured names A, B or none
\* as its overlay; set-name, alias, identity inference and ingestion of two
\* files with matches between A, B and C; the commands are run between two
\* ingestions.
InitConfigured ==
    /\ InitStore
    /\ InitIngest
    /\ InitCli
    /\ InitWatcher
    /\ InitBatch
    /\ InitLauncher
    /\ my_names \in {{}, {"A"}, {"B"}}

ResultSummaries == Summaries(Names, {<<>>})

NextResult ==
    \/ \E n \in {"A", "B"} : ~InCall("t1") /\ CmdSetName(n)
    \/ ~InCall("t1") /\ CmdAlias("A", "C")
    \/ ~InCall("t1") /\ DetectMyName
    \/ IngestPlayers("t1", IdentityFiles, ResultSummaries)

SpecResult == InitConfigured /\ [][NextResult]_vars

\* SpecNotify: the watcher's callback run by caller t1 on two files with
\* matches between A and B, with set-name run between two callbacks.
NotifySummaries == Summaries(IngestNames, {<<>>})

NextNotify ==
    \/ \E n \in IngestNames : pc["t1"] \in {"idle", "raised"} /\ CmdSetName(n)
    \/ \E f \in IdentityFiles :
          (pc["t1"] = "returned" => result["t1"] = "None") /\ Call("t1", f)
    \/ IngestPlayersBody("t1", NotifySummaries)
    \/ OnNewReplay("t1")

SpecNotify == Init /\ [][NextNotify]_vars

\* SpecRecord: set-name and alias, sequential ingestion of two files with
\* matches between A, B and C, and the record queries; the commands are run
\* between two ingestions.
RecordFiles == {F1, F3}
RecordSummaries == Summaries(Names, {<<>>})

NextRecord ==
    \/ \E n \in {"A", "B"} : ~InCall("t1") /\ CmdSetName(n)
    \/ ~InCall("t1") /\ CmdAlias("B", "C")
    \/ IngestPlayers("t1", RecordFiles, RecordSummaries)
    \/ \E x \in Names : ~InCall("t1") /\ CmdRecord(x)
    \/ ~InCall("t1") /\ CmdRecords

SpecRecord == Init /\ [][NextRecord]_vars

\* SpecLast: set-name A, sequential ingestion of three files (two dated, one
\* without a date token) with matches between A and B, and the record
\* queries; the commands are run between two ingestions.
LastFiles == {F1, F2, F3}
LastSummaries == Summaries(IngestNames, {<<>>})

NextLast ==
    \/ ~InCall("t1") /\ CmdSetName("A")
    \/ IngestPlayers("t1", LastFiles, LastSummaries)
    \/ \E x \in IngestNames : ~InCall("t1") /\ CmdRecord(x)
    \/ ~InCall("t1") /\ CmdRecords

SpecLast == Init /\ [][NextLast]_vars

\* SpecOverlay: a manager configured with local names, set-name run only
\* before the first game is stored (no is_me flag changes after an
\* ingestion), sequential ingestion of two files, and the record query.
OverlaySummaries == Summaries(IngestNames, {<<>>})

NextOverlay ==
    \/ \E n \in IngestNames : games = {} /\ ~InCall("t1") /\ CmdSetName(n)
    \/ IngestPlayers("t1", IdentityFiles, OverlaySummaries)
    \/ \E x \in IngestNames : ~InCall("t1") /\ CmdRecord(x)

SpecOverlay == InitConfigured /\ [][NextOverlay]_vars

\* SpecLauncher: one run of daemon_mode or of launch_mode, the game process
\* starting and ending at any time, and KeyboardInterrupt.
NextLauncher ==
    \/ CmdDaemon
    \/ CmdLaunch
    \/ ScToggle
    \/ DaemonPoll
    \/ DaemonStart
    \/ DaemonStop
    \/ DaemonJoin
    \/ DaemonSleep
    \/ DaemonFinally
    \/ DaemonFinallyJoin
    \/ LaunchStart
    \/ \E launched \in BOOLEAN : LaunchStarcraft(launched)
    \/ LaunchWait
    \/ LaunchPoll
    \/ LaunchStop
    \/ LaunchJoin
    \/ Interrupt

SpecLauncher == Init /\ [][NextLauncher]_vars

----------------------------------------------------------------------------
(* Ingestion: idempotence, the insert race, atomicity.                     *)

\* The caller-local state of process_replay.
call_state(t) == <<pc[t], replay_file[t], parser[t], game_data[t], game_id[t],
                   idx[t], decoded[t], result[t]>>

has_game(f) == \E g \in games : g.replay_file = f

\* C1: ingest is idempotent per file name: the store never holds two Game rows
\* with one replay_file, and a process_replay call for a file that already has
\* a Game row returns None without invoking the decoder and changes no table.
C1_IdempotentIngest ==
    /\ [](\A g1 \in games, g2 \in games :
            g1.replay_file = g2.replay_file => g1 = g2)
    /\ [][\A t \in Threads :
            (~InCall(t) /\ call_state(t)' # call_state(t) /\ has_game(replay_file'[t]))
            => /\ pc'[t] = "returned"
               /\ result'[t] = "None"
               /\ decoded'[t] = FALSE
               /\ storeVars' = storeVars]_vars

C1_Witness ==
    \E t \in Threads :
        /\ pc[t] = "returned" /\ result[t] = "None" /\ ~decoded[t]
        /\ Cardinality({g \in games : g.replay_file = replay_file[t]}) = 1

\* C2: when two callers hold the same file past the game_exists pre-check, the
\* insert_game of exactly one of them stores a row; the other's insert_game
\* raises IntegrityError and changes nothing, and no two Game rows ever share
\* a replay_file.
C2_InsertRace ==
    /\ [](\A t \in Threads, u \in Threads :
            (t # u /\ replay_file[t] = replay_file[u]) => (game_id[t] = 0 \/ game_id[u] = 0))
    /\ [](\A g1 \in games, g2 \in games :
            (g1.replay_file = g2.replay_file) => (g1.id = g2.id))
    /\ [][\A t \in Threads :
            (pc[t] = "insert_game" /\ pc'[t] # "insert_game")
            => IF has_game(game_data[t].replay_file)
               THEN /\ pc'[t] = "raised"
                    /\ result'[t] = "IntegrityError"
                    /\ game_id'[t] = 0
                    /\ storeVars' = storeVars
               ELSE /\ game_id'[t] # 0
                    /\ Cardinality(games') = Cardinality(games) + 1
                    /\ \E g \in games' : g.id = game_id'[t]
                                         /\ g.replay_file = replay_file[t]]_vars

\* Both callers passed the pre-check with the same file; one stored the row and
\* the other was refused.
C2_Witness ==
    \E t \in Threads, u \in Threads :
        /\ t # u
        /\ replay_file[t] = replay_file[u]
        /\ pc[t] = "raised" /\ result[t] = "IntegrityError" /\ game_id[t] = 0
        /\ decoded[t] /\ decoded[u]
        /\ game_id[u] # 0
        /\ Cardinality({g \in games : g.replay_file = replay_file[t]}) = 1

\* C3: ingest persists one file atomically: when a write of an ingest fails
\* after its Game row was written, no row of that ingest remains in the store
\* and the file can still be ingested later.
C3_AtomicIngest ==
    \A t \in Threads :
        (pc[t] = "raised" /\ game_id[t] # 0)
        => /\ ~has_game(replay_file[t])
           /\ \A r \in game_players : r.game_id # game_id[t]
           /\ \A r \in chat_messages : r.game_id # game_id[t]

----------------------------------------------------------------------------
(* The watcher: one-shot delivery, settling, callback failures.            *)

\* C4: over a watcher's lifetime the callback is invoked at most once per file
\* name: _processed only grows, and a callback is only ever invoked for a name
\* that is not in _processed.
C4_AtMostOncePerName ==
    /\ [](\A n \in WatchNames : hist[n].calls <= 1)
    /\ [][/\ processed \subseteq processed'
          /\ \A n \in WatchNames :
               hist'[n].calls > hist[n].calls => n \notin processed]_vars

\* A name was delivered and a later event for it was dropped by the guard.
C4_Witness ==
    \E n \in WatchNames : hist[n].calls = 1 /\ hist[n].deduped /\ wpc = "idle"

\* C5: a file of size zero when the settle delay ends causes no callback and
\* its name is not added to _processed; an event for that name whose file is
\* non-empty when the delay ends delivers it, the callback's one invocation
\* for that name.
C5_EmptyFileDeferred ==
    [][(wpc = "settling" /\ wpc' # "settling")
       => LET n == path_name(wpath)
          IN /\ fs[wpath] = "empty"
                => /\ wpc' = "idle"
                   /\ processed' = processed
                   /\ n \notin processed'
                   /\ \A m \in WatchNames : hist'[m].calls = hist[m].calls
             /\ fs[wpath] = "full"
                => /\ wpc' = "callback"
                   /\ hist'[n].calls = 1
                   /\ hist[n].calls = 0]_vars

\* A file was skipped as empty and delivered on a later event.
C5_Witness ==
    \E n \in WatchNames :
        hist[n].deferred /\ hist[n].calls = 1 /\ n \in processed

\* C6: when the callback raises, the failure is caught: the name stays in
\* _processed, the callback is not invoked again for it, and the observer
\* thread goes back to dispatching events.
C6_CallbackFailureContained ==
    /\ [](\A n \in WatchNames :
            hist[n].raised => (n \in processed /\ hist[n].calls = 1))
    /\ [][(wpc = "callback" /\ wpc' # "callback")
          => /\ wpc' = "idle"
             /\ processed' = processed
             /\ observer' = observer]_vars

\* After one file's callback raised, another file's callback is invoked.
C6_Witness ==
    \E n \in WatchNames, m \in WatchNames :
        /\ n # m
        /\ hist[n].raised
        /\ wpc = "callback" /\ path_name(wpath) = m
        /\ hist[m].calls = 1 /\ ~hist[m].raised

\* C31: handling one file event never takes the watcher down: whatever the
\* file is when the settle delay is over (non-empty, empty or gone), _handle
\* raises nothing, and the observer thread goes on to the callback or back to
\* dispatching events.
C31_HandlerNeverRaises ==
    [][(wpc = "settling" /\ wpc' # "settling")
       => /\ wpc' = (IF fs[wpath] = "full" THEN "callback" ELSE "idle")
          /\ observer' = observer]_vars

\* C20: stop() returns only after the handling that had started has finished:
\* once it has returned no callback invocation of the watcher is in progress
\* and none starts later.
C20_StopWaitsForHandler ==
    /\ [](observer = "stopped" => wpc \notin {"settling", "callback"})
    /\ [][observer = "stopped"
          => /\ observer' = "stopped"
             /\ wpc' = wpc
             /\ \A n \in WatchNames : hist'[n].calls = hist[n].calls]_vars

\* The watcher was stopped after a delivery, with events left in its queue.
C20_Witness ==
    /\ observer = "stopped"
    /\ event_queue # <<>>
    /\ wpc = "idle"
    /\ \E n \in WatchNames : hist[n].calls = 1

----------------------------------------------------------------------------
(* Identity: aliases, get_or_create_player, inference.                     *)

\* The store after add_alias(a, b) on an empty store.
after_first_alias(a, b) ==
    /\ players = {[id |-> 1, name |-> a, is_me |-> FALSE]}
    /\ aliases = {[player_id |-> 1, alt_name |-> b]}
    /\ games = {}

\* C7 as stated: from a store with no players, after add_alias(A, B) and then
\* add_alias(B, C), resolve_player_name(B) is A and resolve_player_name(C) is
\* not A.
C7_SingleHopAsStated ==
    [][\A a \in Names, b \in Names, c \in Names :
         (/\ a # b /\ b # c /\ a # c
          /\ after_first_alias(a, b)
          /\ last'.op = "alias" /\ last'.args = <<b, c>>)
         => /\ resolve_player_name(b)' = a
            /\ resolve_player_name(c)' # a]_vars

\* C7 amended: from a store with no players, after add_alias(A, B) and then
\* add_alias(B, C), resolve_player_name(B) is A and resolve_player_name(C) is A
\* too: add_alias resolves its player_name through the alias table, so C is
\* mapped to A's player and no player B is created.
C7_AliasOfAliasFlattened ==
    [][\A a \in Names, b \in Names, c \in Names :
         (/\ a # b /\ b # c /\ a # c
          /\ after_first_alias(a, b)
          /\ last'.op = "alias" /\ last'.args = <<b, c>>)
         => /\ resolve_player_name(b)' = a
            /\ resolve_player_name(c)' = a
            /\ players' = players
            /\ aliases' = aliases \cup {[player_id |-> 1, alt_name |-> c]}]_vars

C7_Witness ==
    /\ last.op = "alias" /\ last.args = <<"B", "C">>
    /\ players = {[id |-> 1, name |-> "A", is_me |-> FALSE]}
    /\ aliases = {[player_id |-> 1, alt_name |-> "B"], [player_id |-> 1, alt_name |-> "C"]}
    /\ resolve_player_name("C") = "A"

\* C8: once get_or_create_player has returned id k for a name, a call with that
\* name returns k and creates no player row, in every later state.
C8_StablePlayerId ==
    \A n \in Names :
        returned_id[n] # 0
        => get_or_create_player(players, aliases, n)
             = [id |-> returned_id[n], players |-> players]

\* The number of games in which name n occurs as winner or loser.
appearances(n) ==
    Cardinality({g \in games : g.winner_name = n})
    + Cardinality({g \in games : g.loser_name = n})

\* A step of detect_my_name taken while no player is marked local and no
\* process_replay is under way.
DetectStep ==
    /\ last'.op = "detect_my_name"
    /\ last' # last
    /\ get_my_names = {}
    /\ \A t \in Threads : ~InCall(t)

\* C9: when no player is marked local and one name occurs in strictly more
\* games than every other name, detect_my_name returns that name and the
\* store's local-user names contain it afterwards.
C9_InferTopName ==
    [][\A n \in Names :
         (DetectStep /\ \A m \in Names \ {n} : appearances(n) > appearances(m))
         => /\ last'.ret = n
            /\ n \in get_my_names']_vars

\* C10: when no player is marked local and the two highest appearance counts
\* are equal, detect_my_name returns None and marks nothing: the players table
\* and the overlay are unchanged.
C10_TieRefused ==
    [][\A n \in Names, m \in Names :
         (/\ DetectStep
          /\ n # m
          /\ appearances(n) = appearances(m)
          /\ \A k \in Names : appearances(k) <= appearances(n))
         => /\ last'.ret = None
            /\ players' = players
            /\ my_names' = my_names]_vars

----------------------------------------------------------------------------
(* Identity inference with a local user already registered.                *)

\* C11: whenever the store has a player marked local, detect_my_name returns
\* the first such name and leaves the local-user set unchanged, for every game
\* history, a store without games included.
C11_ExistingLocalUserKept ==
    [][(/\ last'.op = "detect_my_name"
        /\ last' # last
        /\ get_my_names # {}
        /\ \A t \in Threads : ~InCall(t))
       => /\ last'.ret = get_my_names_list[1]
          /\ get_my_names' = get_my_names]_vars

----------------------------------------------------------------------------
(* Aggregation queries.                                                     *)

\* C12: get_player_name_counts returns, for every name that occurs as winner
\* or loser in some game, exactly one entry, whose count is the number of
\* games with that name as winner plus the number with it as loser, and the
\* entries are in non-increasing order of count.
C12_CountsSummedPerName ==
    (\A t \in Threads : ~InCall(t))
    => LET counts == get_player_name_counts
       IN /\ \A n \in Names :
               appearances(n) > 0
               => /\ Cardinality({i \in 1..Len(counts) : counts[i].name = n}) = 1
                  /\ \E i \in 1..Len(counts) :
                        counts[i].name = n /\ counts[i].count = appearances(n)
          /\ \A i \in 1..Len(counts) : appearances(counts[i].name) > 0
          /\ \A i \in 1..Len(counts), j \in 1..Len(counts) :
               i < j => counts[i].count >= counts[j].count

\* A step of cmd_record.
RecordStep == last'.op = "record" /\ last' # last

\* C13: get_record_vs(x) reports, with r = resolve_player_name(x): all games
\* whose winner or loser is r; wins = those with the winner among the store's
\* local names and loser r; losses = those with the loser among the local
\* names and winner r; total = wins + losses; every other selected game is
\* classified unknown and counted in neither.
C13_RecordAgainst ==
    [][RecordStep
       => LET r == resolve_player_name(last'.args[1])
              sel == {g \in games : g.winner_name = r \/ g.loser_name = r}
              won == {g \in sel : g.winner_name \in get_my_names /\ g.loser_name = r}
              lost == {g \in sel : g.loser_name \in get_my_names /\ g.winner_name = r}
              ret == last'.ret
          IN /\ ret.opponent = r
             /\ Len(ret.games) = Cardinality(sel)
             /\ {ret.games[i].replay_file : i \in 1..Len(ret.games)}
                  = {g.replay_file : g \in sel}
             /\ ret.wins = Cardinality(won)
             /\ ret.losses = Cardinality(lost)
             /\ ret.total = ret.wins + ret.losses
             /\ \A i \in 1..Len(ret.games) :
                  LET g == CHOOSE h \in sel : h.replay_file = ret.games[i].replay_file
                  IN ret.games[i].vs_result =
                       IF g \in won THEN "win"
                       ELSE IF g \in lost THEN "loss" ELSE "unknown"]_vars

\* A record asked for by an alt-name, with one counted game and one game
\* classified unknown.
C13_Witness ==
    /\ last.op = "record"
    /\ last.ret.opponent # last.args[1]
    /\ last.ret.total = 1
    /\ Len(last.ret.games) = 2

\* A step of cmd_records.
RecordsStep == last'.op = "records" /\ last' # last

\* C14: get_all_opponents counts a game for an opponent only when exactly one
\* of winner and loser is a local name and the other, the opponent, is not;
\* games with both or neither side local count for nobody; each opponent has
\* one entry with its wins, its losses and total = wins + losses, and the
\* entries are in ascending order of opponent name.
C14_OpponentSummaries ==
    [][RecordsStep
       => LET mine == get_my_names
              won(n) == {g \in games : g.winner_name \in mine /\ g.loser_name = n}
              lost(n) == {g \in games : g.loser_name \in mine /\ g.winner_name = n}
              opponents == {n \in Names \ mine : won(n) \cup lost(n) # {}}
              ret == last'.ret
          IN /\ Len(ret) = Cardinality(opponents)
             /\ {ret[i].opponent : i \in 1..Len(ret)} = opponents
             /\ \A i \in 1..Len(ret) :
                  /\ ret[i].wins = Cardinality(won(ret[i].opponent))
                  /\ ret[i].losses = Cardinality(lost(ret[i].opponent))
                  /\ ret[i].total = ret[i].wins + ret[i].losses
             /\ \A i \in 1..Len(ret), j \in 1..Len(ret) :
                  i < j => name_rank(ret[i].opponent) < name_rank(ret[j].opponent)]_vars

\* A summary list with one opponent, from a store that also holds a game
\* between two local names.
C14_Witness ==
    /\ last.op = "records"
    /\ Len(last.ret) = 1
    /\ last.ret[1].total = 1
    /\ \E g \in games : g.winner_name \in get_my_names /\ g.loser_name \in get_my_names

\* C24: last_played of each entry of get_all_opponents is the largest
\* non-NULL played_at among the games counted for that opponent, and is NULL
\* only when every one of them has a NULL played_at.
C24_LastPlayedIsLatest ==
    [][RecordsStep
       => LET mine == get_my_names
              ret == last'.ret
          IN \A i \in 1..Len(ret) :
               LET n == ret[i].opponent
                   counted == {g \in games :
                                 \/ g.winner_name \in mine /\ g.loser_name = n
                                 \/ g.loser_name \in mine /\ g.winner_name = n}
                   dates == {g.played_at : g \in counted} \ {Null}
               IN IF dates = {} THEN ret[i].last_played = Null
                  ELSE /\ ret[i].last_played \in dates
                       /\ \A d \in dates :
                            played_at_key(d) <= played_at_key(ret[i].last_played)]_vars

\* A summary whose opponent has three counted games, two of them dated and
\* one with a NULL played_at, the earlier-dated one ingested last.
C24_Witness ==
    /\ last.op = "records"
    /\ Len(last.ret) = 1
    /\ last.ret[1].total = 3
    /\ last.ret[1].last_played = extract_datetime(F2)
    /\ \E g \in games : g.replay_file = F1 /\ g.id = 3

\* C25: the games list of get_record_vs is in descending order of played_at,
\* and the games with a NULL played_at come after all the dated ones.
C25_GamesLatestFirst ==
    [][RecordStep
       => LET list == last'.ret.games
          IN \A i \in 1..Len(list), j \in 1..Len(list) :
               i < j => \/ list[j].played_at = Null
                        \/ /\ list[i].played_at # Null
                           /\ played_at_key(list[i].played_at)
                                >= played_at_key(list[j].played_at)]_vars

\* A record of three games: the undated one was ingested first and is listed
\* last, the latest one was ingested last and is listed first.
C25_Witness ==
    /\ last.op = "record"
    /\ Len(last.ret.games) = 3
    /\ last.ret.games[1].replay_file = F2 /\ last.ret.games[1].id = 3
    /\ last.ret.games[2].replay_file = F1
    /\ last.ret.games[3].replay_file = F3 /\ last.ret.games[3].id = 1

----------------------------------------------------------------------------
(* Ingestion: decoder failures, my_result, stored rows.                     *)

\* C15: when the decoder fails on a file, process_replay returns None, raises
\* nothing and writes no row, and the file stays un-ingested: a later
\* process_replay of a file without a Game row invokes the decoder.
C15_DecoderFailureSkipped ==
    [][\A t \in Threads :
         /\ (pc[t] = "parse" /\ pc'[t] \in {"returned", "raised"})
            => /\ pc'[t] = "returned"
               /\ result'[t] = "None"
               /\ storeVars' = storeVars
         /\ (~InCall(t) /\ call_state(t)' # call_state(t)
                        /\ ~has_game(replay_file'[t]))
            => pc'[t] = "parse"]_vars

\* One caller's decoder failed on a file and returned None; the file has no
\* Game row and another call for it is at the decoder.
C15_Witness ==
    \E t \in Threads, u \in Threads :
        /\ pc[t] = "returned" /\ result[t] = "None" /\ decoded[t]
        /\ ~has_game(replay_file[t])
        /\ pc[u] = "parse" /\ replay_file[u] = replay_file[t]

\* C17: at ingestion my_result is "win" if the winner is among the local names
\* (the store's names merged with the overlay), otherwise "loss" if the loser
\* is, otherwise "unknown"; with both among them it is "win", with no local
\* name it is "unknown"; the Game row stores that value.
C17_MyResultAtIngestion ==
    [][\A t \in Threads :
         /\ (pc[t] = "parse" /\ pc'[t] = "insert_game")
            => LET mine == my_names \cup get_my_names
                   w == parser'[t].winner
                   l == parser'[t].loser
               IN /\ game_data'[t].winner_name = w
                  /\ game_data'[t].loser_name = l
                  /\ game_data'[t].my_result =
                       IF w \in mine THEN "win"
                       ELSE IF l \in mine THEN "loss" ELSE "unknown"
                  /\ mine = {} => game_data'[t].my_result = "unknown"
         /\ (pc[t] = "insert_game" /\ game_id'[t] # 0)
            => \E g \in games' \ games :
                 /\ g.id = game_id'[t]
                 /\ g.my_result = game_data[t].my_result]_vars

\* A game between two local names, the winner known from the overlay only and
\* the loser from the store, was classified as a win.
C17_Witness ==
    \E t \in Threads :
        /\ pc[t] = "insert_game"
        /\ game_data[t].winner_name \in my_names \ get_my_names
        /\ game_data[t].loser_name \in get_my_names
        /\ game_data[t].my_result = "win"

\* C18: a stored Game row is immutable: no later step (set-name, identity
\* inference, alias, get_or_create_player, ingestion of another file) changes
\* or removes it, so a game stored before the local user was known keeps
\* my_result = "unknown".
C18_GameRowsImmutable ==
    /\ [](\A g1 \in games, g2 \in games : g1.id = g2.id => g1 = g2)
    /\ [][games \subseteq games']_vars

\* A game stored as unknown whose winner has since been marked local, with
\* another game stored after that.
C18_Witness ==
    \E g \in games, h \in games :
        /\ g.id < h.id
        /\ g.my_result = "unknown"
        /\ g.winner_name \in get_my_names
        /\ h.my_result # "unknown"

\* C19: round trip: for every game record returned by a successful
\* process_replay, get_record_vs called with the record's winner name or loser
\* name returns a games list that holds a game with the same replay_file whose
\* map name, duration text and my_result equal those of the returned record.
C19_RoundTrip ==
    \A t \in Threads :
        (pc[t] = "returned" /\ result[t] = "game_data")
        => \A n \in {game_data[t].winner_name, game_data[t].loser_name} \ {None} :
             LET list == get_record_vs(n).games
             IN \E i \in 1..Len(list) :
                  /\ list[i].replay_file = game_data[t].replay_file
                  /\ list[i].map_name = game_data[t].map_name
                  /\ list[i].duration_text = game_data[t].duration_text
                  /\ list[i].my_result = game_data[t].my_result

\* C21: after each process_replay of the watcher's callback that returned a
\* game record, the callback emits the short and the long record text, for
\* every game record (no winner and loser determined, NULL played_at).
C21_CallbackEmitsSummaries ==
    [][\A t \in Threads :
         (pc[t] = "returned" /\ result[t] = "game_data" /\ pc'[t] = "idle")
         => /\ last'.op = "on_new_replay"
            /\ last'.ret.outcome = "emitted"]_vars

\* C22: played_at of an ingested game is the date-time token of its file name
\* reformatted (date, hours, minutes, seconds) when the name holds one, and
\* is not left NULL when the name holds none (the decoder's timing is used).
C22_PlayedAtFromNameOrDecoder ==
    \A g \in games :
        IF g.replay_file.token # Null
        THEN /\ Len(g.played_at) = 4
             /\ g.played_at[1] = g.replay_file.token[1]
             /\ \A k \in 1..3 :
                   g.played_at[k + 1] = SubSeq(g.replay_file.token[2], 2 * k - 1, 2 * k)
        ELSE g.played_at # Null

\* C23: each Game row of a match whose winner and loser the decoder
\* determined has exactly two GamePlayer rows, exactly one of them with the
\* win flag set.  Stated for every state in which no process_replay call is
\* still writing that game's rows, which the claim's "every reachable state"
\* includes.
C23_TwoGamePlayersOneWinner ==
    \A g \in games :
        (/\ g.winner_name # None
         /\ g.loser_name # None
         /\ ~\E t \in Threads : InCall(t) /\ game_id[t] = g.id)
        => /\ Cardinality({r \in game_players : r.game_id = g.id}) = 2
           /\ Cardinality({r \in game_players : r.game_id = g.id /\ r.is_winner}) = 1

----------------------------------------------------------------------------
(* Names, aliases and the record queries.                                  *)

\* C27: get_or_create_player(n) returns the id of the player whose name is
\* resolve_player_name(n), also when n is an alt-name of one player while a
\* player row named n exists as well.
C27_SamePlayerAsResolveName ==
    \A n \in Names :
        LET r == get_or_create_player(players, aliases, n)
        IN \E p \in r.players : p.id = r.id /\ p.name = resolve_player_name(n)

\* C28: when y is an alt-name of player x and a game was ingested with y as
\* its winner or loser, get_record_vs(x) and get_record_vs(y) both list that
\* game.
C28_AliasGamesInRecord ==
    \A a \in aliases, g \in games :
        LET x == (CHOOSE p \in players : p.id = a.player_id).name
            y == a.alt_name
            listed(n) == \E i \in 1..Len(get_record_vs(n).games) :
                            get_record_vs(n).games[i].replay_file = g.replay_file
        IN (x # y /\ (g.winner_name = y \/ g.loser_name = y))
           => listed(x) /\ listed(y)

\* C29: for every entry of get_all_opponents, get_record_vs of the entry's
\* opponent reports the same wins, losses and total.
C29_SummaryAgreesWithRecord ==
    \A i \in 1..Len(get_all_opponents) :
        LET e == get_all_opponents[i]
            r == get_record_vs(e.opponent)
        IN /\ r.wins = e.wins
           /\ r.losses = e.losses
           /\ r.total = e.total

\* C30: a game stored with my_result win or loss, with no is_me flag changed
\* since, is classified the same by get_record_vs of its other participant,
\* also when the local name is known from the configured overlay only.
C30_QueryAgreesWithMyResult ==
    \A g \in games :
        g.my_result \in {"win", "loss"}
        => LET other == IF g.my_result = "win" THEN g.loser_name ELSE g.winner_name
               list == get_record_vs(other).games
           IN other # None
              => \A i \in 1..Len(list) :
                    list[i].replay_file = g.replay_file
                    => list[i].vs_result = g.my_result

----------------------------------------------------------------------------
(* The launcher.                                                           *)

----------------------------------------------------------------------------
(* Folder import.                                                           *)

\* C16: import_folder never stops the batch on an individual failure: no
\* exception leaves it; it visits the replay files in ascending path order,
\* and when it returns it has called process_replay on every one of them and
\* its count is at most the number of those files that have a Game row; an
\* empty folder returns 0.
C16_BatchNeverStops ==
    /\ batch.state # "raised"
    /\ \A i \in 1..Len(batch.files), j \in 1..Len(batch.files) :
          i < j => file_rank(batch.files[i]) < file_rank(batch.files[j])
    /\ batch.state = "returned"
       => /\ batch.pos = Len(batch.files)
          /\ batch.count <= Cardinality({i \in 1..Len(batch.files) :
                                            has_game(batch.files[i])})
          /\ batch.files = <<>> => batch.count = 0

====
